---- MODULE Spec2Model ----
(***************************************************************************)
(* wg-api: a JSON-RPC 2.0 front end for one WireGuard device.              *)
(*                                                                         *)
(* The model follows one HTTP exchange at a time through jsonrpc.HTTP,     *)
(* Server.ServeJSONRPC and the five handlers of the server package, down   *)
(* to the calls made on the wgctrl client (Device and ConfigureDevice).    *)
(*                                                                         *)
(* Go values are modelled as follows.                                      *)
(*  - a Go string that is parsed somewhere (a key, an endpoint, a          *)
(*    duration, a CIDR range) is a record that describes its text;         *)
(*  - a message is a sequence of its parts, so that wrapping               *)
(*    (fmt.Errorf("...: %w", err), "..."+err.Error()) can be observed;     *)
(*  - a pointer or an optional JSON field is a sequence of length <= 1;    *)
(*  - an interface value is a record with a "type" field, Nil for nil.     *)
(***************************************************************************)
EXTENDS Integers, Sequences, FiniteSets, TLC

VARIABLES
    peers,      \* the device's peer table as the provider holds it (dev.Peers)
    devUp,      \* whether the provider can currently open the device
    req,        \* the HTTP request of the last exchange, NoReq when none
    resp,       \* the HTTP response of the last exchange, NoResp when none
    calls,      \* the provider calls made while serving the last exchange
    w,          \* a jsonrpc response object under direct use (unit level)
    ret,        \* what the last Write on w returned
    nwrites,    \* how many Writes w has received
    made,       \* the value last returned by a direct ServerError call
    authTokens, \* the tokens main collected (*authTokens), none: no AuthTokens
    flights     \* the exchanges in progress at the same time, one per goroutine

vars == <<peers, devUp, req, resp, calls, w, ret, nwrites, made, authTokens, flights>>

(***************************************************************************)
(* Bounds of the model.                                                    *)
(***************************************************************************)
\* longest allowed_ips list of a request
MaxIPs == 2
\* number of Writes made on one response object at unit level
MaxWrites == 3
\* how far below and above the reserved range ServerError codes are drawn
CodeMargin == 3
\* number of exchanges that are in progress at the same time
MaxFlights == 2

(***************************************************************************)
(* Basic values.                                                           *)
(***************************************************************************)
Nil == [type |-> "nil"]

NoReq == [verb |-> "none"]

\* no response yet: the fields of a response, status 0
NoResp == [status |-> 0, ctype |-> "", text |-> <<>>, envelope |-> Nil]

\* The name given to NewServer (main.go passes device.Name).
deviceName == "wg0"

\* An optional value: <<>> when absent, <<v>> when present.
Opt(x, dflt) == IF x = <<>> THEN dflt ELSE x[1]

(***************************************************************************)
(* Strings that the server parses.                                         *)
(***************************************************************************)
\* A key string: its length, whether all its characters are base64
\* characters, how many '=' end it, and which key its bytes spell.
KeyStr(len, alpha, pad, id) == [len |-> len, alpha |-> alpha, pad |-> pad, id |-> id]

EmptyStr == KeyStr(0, TRUE, 0, 0)

\* 44 characters, one '=': 32 bytes
GoodKeyStr(id) == KeyStr(44, TRUE, 1, id)

\* 43 characters: not the length of a key
ShortKeyStr == KeyStr(43, TRUE, 0, 9)

\* 44 characters, one of them outside the base64 alphabet
IllegalKeyStr == KeyStr(44, FALSE, 1, 9)

\* 44 characters, two '=': 31 bytes
Pad2KeyStr == KeyStr(44, TRUE, 2, 9)

\* base64.StdEncoding.DecodeString, as used by wgtypes.ParseKey: the number
\* of bytes, or -1 on a decoding error.
DecodedLen(s) ==
    IF ~s.alpha \/ s.len % 4 # 0 THEN -1
    ELSE (s.len \div 4) * 3 - s.pad

\* wgtypes.ParseKey: [ok, key, msg]
ParseKey(s) ==
    IF DecodedLen(s) = -1
    THEN [ok |-> FALSE, key |-> 0,
          msg |-> <<"wgtypes: failed to parse base64-encoded key">>]
    ELSE IF DecodedLen(s) # 32
    THEN [ok |-> FALSE, key |-> 0,
          msg |-> <<"wgtypes: incorrect key size: ", ToString(DecodedLen(s))>>]
    ELSE [ok |-> TRUE, key |-> s.id, msg |-> <<>>]

\* An endpoint string: host and port texts ("" when missing).
EndpointStr(host, port) == [host |-> host, port |-> port]

NoEndpointStr == EndpointStr("", "")

\* net.ResolveUDPAddr("udp", s): [ok, addr, msg]
ResolveUDPAddr(s) ==
    IF s.port = ""
    THEN [ok |-> FALSE, addr |-> <<>>, msg |-> <<"address ", s.host, ": missing port in address">>]
    ELSE [ok |-> TRUE, addr |-> <<s>>, msg |-> <<>>]

\* A duration string: digits and unit ("" when missing).
DurationStr(num, unit) == [num |-> num, unit |-> unit]

NoDurationStr == DurationStr(0, "")

\* time.ParseDuration: [ok, d (seconds), msg]
ParseDuration(s) ==
    IF s.unit = "s" THEN [ok |-> TRUE, d |-> s.num, msg |-> <<>>]
    ELSE IF s.unit = "m" THEN [ok |-> TRUE, d |-> s.num * 60, msg |-> <<>>]
    ELSE [ok |-> FALSE, d |-> 0, msg |-> <<"time: missing unit in duration">>]

\* A CIDR string "ip/bits" over a two-bit address space.
CIDRStr(ip, bits) == [ip |-> ip, bits |-> bits]

\* The address with its host bits cleared.
Mask(ip, bits) ==
    IF bits = 0 THEN 0
    ELSE IF bits = 1 THEN (ip \div 2) * 2
    ELSE ip

\* net.ParseCIDR: [ok, net (the network, host bits cleared), msg]
ParseCIDR(s) ==
    IF s.bits > 2 \/ s.ip > 3
    THEN [ok |-> FALSE, net |-> CIDRStr(0, 0), msg |-> <<"invalid CIDR address">>]
    ELSE [ok |-> TRUE, net |-> CIDRStr(Mask(s.ip, s.bits), s.bits), msg |-> <<>>]

(***************************************************************************)
(* package jsonrpc: errors.                                                *)
(***************************************************************************)
Error(code, message) == [type |-> "*Error", Code |-> code, Message |-> message]

ParseError(message) == Error(-32700, message)

InvalidRequest(message) == Error(-32600, message)

\* MethodNotFound with the code of InvalidRequest
MethodNotFoundWrongCode(message) == Error(-32600, message)

MethodNotFound(message) == Error(-32601, message)

InvalidParams(message) == Error(-32602, message)

InternalError(message) == Error(-32603, message)

ServerError(code, message) == Error(code, message)

\* fmt.Errorf / errors.New: an error that is not a *jsonrpc.Error
Errorf(message) == [type |-> "error", Message |-> message]

\* err.Error()
ErrorString(e) ==
    IF e.type = "*Error"
    THEN <<"Error(", ToString(e.Code), "): ">> \o e.Message
    ELSE e.Message

(***************************************************************************)
(* package jsonrpc: the response object.                                   *)
(***************************************************************************)
\* a response that does not take the id of the request
NewResponseNoID(id) == [Version |-> "2.0", Result |-> Nil, Error |-> Nil, ID |-> ""]

NewResponse(id) == [Version |-> "2.0", Result |-> Nil, Error |-> Nil, ID |-> id]

\* response.Write: [r (the object afterwards), ret (the error returned)]
Write(r, res) ==
    IF r.Result # Nil /\ r.Error # Nil
    THEN [r |-> r, ret |-> Errorf(<<"response already written">>)]
    ELSE IF res.type = "*Error"
    THEN [r |-> [r EXCEPT !.Error = res], ret |-> Nil]
    ELSE IF res.type = "error"
    THEN [r |-> [r EXCEPT !.Error = InternalError(ErrorString(res))], ret |-> Nil]
    ELSE [r |-> [r EXCEPT !.Result = res], ret |-> Nil]

(***************************************************************************)
(* The provider: the wgctrl client and the device behind it.               *)
(***************************************************************************)
\* A peer as the device holds it (wgtypes.Peer). PresharedKey 0 is the zero
\* key, PersistentKeepaliveInterval is in seconds.
NewPeer(publicKey) ==
    [PublicKey |-> publicKey, PresharedKey |-> 0, Endpoint |-> <<>>,
     PersistentKeepaliveInterval |-> 0, AllowedIPs |-> <<>>,
     ReceiveBytes |-> 0, TransmitBytes |-> 0, ProtocolVersion |-> 1]

\* The zero wgtypes.PeerConfig but for its public key.
PeerConfig(publicKey) ==
    [PublicKey |-> publicKey, Remove |-> FALSE, UpdateOnly |-> FALSE,
     PresharedKey |-> <<>>, Endpoint |-> <<>>,
     PersistentKeepaliveInterval |-> <<>>,
     ReplaceAllowedIPs |-> FALSE, AllowedIPs |-> <<>>]

\* a configuration that asks to replace the whole peer list
ConfigReplacingPeers(peerConfigs) == [ReplacePeers |-> TRUE, Peers |-> peerConfigs]

\* wgtypes.Config{Peers: ...}
Config(peerConfigs) == [ReplacePeers |-> FALSE, Peers |-> peerConfigs]

InSeq(x, s) == \E i \in 1..Len(s) : s[i] = x

RECURSIVE AppendNew(_, _)
\* the ranges of add the device does not hold yet, appended to have
AppendNew(have, add) ==
    IF add = <<>> THEN have
    ELSE AppendNew(IF InSeq(Head(add), have) THEN have ELSE Append(have, Head(add)),
                   Tail(add))

HasPeer(tbl, key) == \E i \in 1..Len(tbl) : tbl[i].PublicKey = key

PeerOf(tbl, key) == tbl[CHOOSE i \in 1..Len(tbl) : tbl[i].PublicKey = key]

\* One peer of the table changed as the device changes it for a PeerConfig
\* that does not remove it.
UpdatePeer(p, pc) ==
    [p EXCEPT
        !.PresharedKey = Opt(pc.PresharedKey, @),
        !.Endpoint = IF pc.Endpoint = <<>> THEN @ ELSE pc.Endpoint,
        !.PersistentKeepaliveInterval = Opt(pc.PersistentKeepaliveInterval, @),
        !.AllowedIPs = AppendNew(IF pc.ReplaceAllowedIPs THEN <<>> ELSE @,
                                 pc.AllowedIPs)]

\* A range belongs to one peer of a device: a peer other than the one a
\* PeerConfig is for loses the ranges that the PeerConfig sets.
Yield(p, pc) ==
    [p EXCEPT !.AllowedIPs = SelectSeq(@, LAMBDA a : ~InSeq(a, pc.AllowedIPs))]

\* The table after the device has applied one PeerConfig.
ApplyPeerConfig(tbl, pc) ==
    IF pc.Remove
    THEN SelectSeq(tbl, LAMBDA p : p.PublicKey # pc.PublicKey)
    ELSE IF HasPeer(tbl, pc.PublicKey)
    THEN [i \in 1..Len(tbl) |->
             IF tbl[i].PublicKey = pc.PublicKey THEN UpdatePeer(tbl[i], pc)
             ELSE Yield(tbl[i], pc)]
    ELSE IF pc.UpdateOnly THEN tbl
    ELSE Append([i \in 1..Len(tbl) |-> Yield(tbl[i], pc)],
                UpdatePeer(NewPeer(pc.PublicKey), pc))

RECURSIVE ApplyPeerConfigs(_, _)
ApplyPeerConfigs(tbl, pcs) ==
    IF pcs = <<>> THEN tbl
    ELSE ApplyPeerConfigs(ApplyPeerConfig(tbl, Head(pcs)), Tail(pcs))

NoSuchDevice == <<"file does not exist">>

\* s.wg.Device(name): [ok, dev, msg]
Device(tbl, up, name) ==
    IF up /\ name = deviceName
    THEN [ok |-> TRUE, msg |-> <<>>,
          dev |-> [Name |-> name, Type |-> "Linux kernel", PublicKey |-> 7,
                   ListenPort |-> 51820, FirewallMark |-> 0, Peers |-> tbl]]
    ELSE [ok |-> FALSE, msg |-> NoSuchDevice, dev |-> Nil]

\* s.wg.ConfigureDevice(name, cfg): [ok, peers (the table afterwards), msg]
ConfigureDevice(tbl, up, name, cfg) ==
    IF up /\ name = deviceName
    THEN [ok |-> TRUE, msg |-> <<>>,
          peers |-> ApplyPeerConfigs(IF cfg.ReplacePeers THEN <<>> ELSE tbl, cfg.Peers)]
    ELSE [ok |-> FALSE, msg |-> NoSuchDevice, peers |-> tbl]

\* The record of one provider call, as kept in calls.
DeviceCall(name) == [op |-> "Device", name |-> name]

ConfigureDeviceCall(name, cfg) == [op |-> "ConfigureDevice", name |-> name, cfg |-> cfg]

(***************************************************************************)
(* package server: the handlers.  Each returns                             *)
(*   [res, err, peers, calls]                                              *)
(* the Go results (res, err), the provider's table afterwards and the      *)
(* provider calls it made, in order.                                       *)
(***************************************************************************)
Ret(res, err, tbl, cs) == [res |-> res, err |-> err, peers |-> tbl, calls |-> cs]

\* GetDeviceInfo answering from the device as main opened it at startup
\* (without peers), not asking the provider
GetDeviceInfoFromStartup(tbl, up) ==
    LET d == Device(<<>>, TRUE, deviceName) IN
    Ret([type |-> "*GetDeviceInfoResponse",
         Device |-> [Name |-> d.dev.Name, Type |-> d.dev.Type,
                     PublicKey |-> d.dev.PublicKey,
                     ListenPort |-> d.dev.ListenPort,
                     FirewallMark |-> d.dev.FirewallMark,
                     NumPeers |-> Len(d.dev.Peers)]],
        Nil, tbl, <<>>)

GetDeviceInfo(tbl, up) ==
    LET d == Device(tbl, up, deviceName) IN
    IF ~d.ok
    THEN Ret(Nil, Errorf(<<"could not get WireGuard device: ">> \o d.msg), tbl,
             <<DeviceCall(deviceName)>>)
    ELSE Ret([type |-> "*GetDeviceInfoResponse",
              Device |-> [Name |-> d.dev.Name, Type |-> d.dev.Type,
                          PublicKey |-> d.dev.PublicKey,
                          ListenPort |-> d.dev.ListenPort,
                          FirewallMark |-> d.dev.FirewallMark,
                          NumPeers |-> Len(d.dev.Peers)]],
             Nil, tbl, <<DeviceCall(deviceName)>>)

validateListPeersRequest(r) ==
    IF r = Nil THEN InvalidParams(<<"request body required">>)
    ELSE IF r.Limit < 0 THEN InvalidParams(<<"limit must be positive integer">>)
    ELSE IF r.Offset < 0 THEN InvalidParams(<<"offset must be positive integer">>)
    ELSE Nil

\* time.Duration.String for whole seconds
DurationString(d) ==
    IF d % 60 = 0 /\ d > 0 THEN <<ToString(d \div 60), "m0s">>
    ELSE <<ToString(d), "s">>

\* peer2rpc giving the preshared key as well
peer2rpcWithKey(peer) ==
    [PublicKey |-> GoodKeyStr(peer.PublicKey),
     HasPresharedKey |-> peer.PresharedKey # 0,
     PresharedKey |-> GoodKeyStr(peer.PresharedKey),
     Endpoint |-> Opt(peer.Endpoint, EndpointStr("<nil>", "")),
     PersistentKeepAlive |->
        IF peer.PersistentKeepaliveInterval > 0
        THEN DurationString(peer.PersistentKeepaliveInterval) ELSE <<>>,
     ReceiveBytes |-> peer.ReceiveBytes,
     TransmitBytes |-> peer.TransmitBytes,
     AllowedIPs |-> peer.AllowedIPs,
     ProtocolVersion |-> peer.ProtocolVersion]

peer2rpc(peer) ==
    [PublicKey |-> GoodKeyStr(peer.PublicKey),
     HasPresharedKey |-> peer.PresharedKey # 0,
     Endpoint |-> Opt(peer.Endpoint, EndpointStr("<nil>", "")),
     PersistentKeepAlive |->
        IF peer.PersistentKeepaliveInterval > 0
        THEN DurationString(peer.PersistentKeepaliveInterval) ELSE <<>>,
     ReceiveBytes |-> peer.ReceiveBytes,
     TransmitBytes |-> peer.TransmitBytes,
     AllowedIPs |-> peer.AllowedIPs,
     ProtocolVersion |-> peer.ProtocolVersion]

\* ListPeers asking the provider for the device before it validates
ListPeersQueryFirst(r, tbl, up) ==
    LET verr == validateListPeersRequest(r)
        d == Device(tbl, up, deviceName) IN
    IF ~d.ok
    THEN Ret(Nil, Errorf(<<"could not get WireGuard device: ">> \o d.msg), tbl,
             <<DeviceCall(deviceName)>>)
    ELSE IF verr # Nil THEN Ret(Nil, verr, tbl, <<DeviceCall(deviceName)>>)
    ELSE Ret([type |-> "*ListPeersResponse",
              Peers |-> [i \in 1..Len(d.dev.Peers) |-> peer2rpc(d.dev.Peers[i])]],
             Nil, tbl, <<DeviceCall(deviceName)>>)

\* ListPeers applying offset and limit (a limit of 0 meaning no limit)
ListPeersPaged(r, tbl, up) ==
    LET verr == validateListPeersRequest(r)
        d == Device(tbl, up, deviceName)
        all == [i \in 1..Len(d.dev.Peers) |-> peer2rpc(d.dev.Peers[i])]
        rest == SubSeq(all, r.Offset + 1, Len(all))
        page == IF r.Limit > 0 /\ r.Limit < Len(rest) THEN SubSeq(rest, 1, r.Limit) ELSE rest IN
    IF verr # Nil THEN Ret(Nil, verr, tbl, <<>>)
    ELSE IF ~d.ok
    THEN Ret(Nil, Errorf(<<"could not get WireGuard device: ">> \o d.msg), tbl,
             <<DeviceCall(deviceName)>>)
    ELSE Ret([type |-> "*ListPeersResponse", Peers |-> page], Nil, tbl,
             <<DeviceCall(deviceName)>>)

ListPeers(r, tbl, up) ==
    LET verr == validateListPeersRequest(r)
        d == Device(tbl, up, deviceName) IN
    IF verr # Nil THEN Ret(Nil, verr, tbl, <<>>)
    ELSE IF ~d.ok
    THEN Ret(Nil, Errorf(<<"could not get WireGuard device: ">> \o d.msg), tbl,
             <<DeviceCall(deviceName)>>)
    ELSE Ret([type |-> "*ListPeersResponse",
              Peers |-> [i \in 1..Len(d.dev.Peers) |-> peer2rpc(d.dev.Peers[i])]],
             Nil, tbl, <<DeviceCall(deviceName)>>)

\* the public key checks without the decoding
validatePublicKeyLengthOnly(s) ==
    IF s = EmptyStr THEN InvalidParams(<<"public key is required">>)
    ELSE IF s.len # 44 THEN InvalidParams(<<"malformed public key">>)
    ELSE Nil

\* The public key checks shared by GetPeer, AddPeer and RemovePeer.
validatePublicKey(s) ==
    IF s = EmptyStr THEN InvalidParams(<<"public key is required">>)
    ELSE IF s.len # 44 THEN InvalidParams(<<"malformed public key">>)
    ELSE IF ~ParseKey(s).ok
    THEN InvalidParams(<<"invalid public key: ">> \o ParseKey(s).msg)
    ELSE Nil

validateGetPeerRequest(r) ==
    IF r = Nil THEN InvalidParams(<<"request body required">>)
    ELSE validatePublicKey(r.PublicKey)

\* GetPeer answering an unknown key with an error
GetPeerUnknownIsError(r, tbl, up) ==
    LET verr == validateGetPeerRequest(r)
        d == Device(tbl, up, deviceName)
        publicKey == ParseKey(r.PublicKey) IN
    IF verr # Nil THEN Ret(Nil, verr, tbl, <<>>)
    ELSE IF ~d.ok
    THEN Ret(Nil, Errorf(<<"could not get WireGuard device: ">> \o d.msg), tbl,
             <<DeviceCall(deviceName)>>)
    ELSE IF HasPeer(d.dev.Peers, publicKey.key)
    THEN Ret([type |-> "*GetPeerResponse",
              Peer |-> <<peer2rpc(PeerOf(d.dev.Peers, publicKey.key))>>],
             Nil, tbl, <<DeviceCall(deviceName)>>)
    ELSE Ret(Nil, Errorf(<<"peer not found">>), tbl, <<DeviceCall(deviceName)>>)

GetPeer(r, tbl, up) ==
    LET verr == validateGetPeerRequest(r)
        d == Device(tbl, up, deviceName)
        publicKey == ParseKey(r.PublicKey) IN
    IF verr # Nil THEN Ret(Nil, verr, tbl, <<>>)
    ELSE IF ~d.ok
    THEN Ret(Nil, Errorf(<<"could not get WireGuard device: ">> \o d.msg), tbl,
             <<DeviceCall(deviceName)>>)
    ELSE IF ~publicKey.ok
    THEN Ret(Nil, InvalidParams(<<"invalid public key: ">> \o publicKey.msg), tbl,
             <<DeviceCall(deviceName)>>)
    ELSE IF HasPeer(d.dev.Peers, publicKey.key)
    THEN Ret([type |-> "*GetPeerResponse",
              Peer |-> <<peer2rpc(PeerOf(d.dev.Peers, publicKey.key))>>],
             Nil, tbl, <<DeviceCall(deviceName)>>)
    ELSE Ret([type |-> "*GetPeerResponse", Peer |-> <<>>], Nil, tbl,
             <<DeviceCall(deviceName)>>)

RECURSIVE FirstBadCIDR(_)
\* the first entry of a list that net.ParseCIDR rejects, <<>> when none
FirstBadCIDR(ips) ==
    IF ips = <<>> THEN <<>>
    ELSE IF ~ParseCIDR(Head(ips)).ok THEN <<Head(ips)>>
    ELSE FirstBadCIDR(Tail(ips))

\* fmt.Sprintf("range %q is not valid: %s", allowedIP, err)
RangeNotValid(allowedIP) ==
    <<"range ", ToString(allowedIP), " is not valid: ">> \o ParseCIDR(allowedIP).msg

\* validateAddPeerRequest looking at allowed_ips before the preshared key
validateAddPeerRequestRangesFirst(r) ==
    IF r = Nil THEN InvalidParams(<<"request body required">>)
    ELSE IF validatePublicKey(r.PublicKey) # Nil THEN validatePublicKey(r.PublicKey)
    ELSE IF FirstBadCIDR(r.AllowedIPs) # <<>>
    THEN InvalidParams(RangeNotValid(FirstBadCIDR(r.AllowedIPs)[1]))
    ELSE IF r.PresharedKey # EmptyStr /\ r.PresharedKey.len # 44
    THEN InvalidParams(<<"malformed preshared key">>)
    ELSE IF r.PresharedKey # EmptyStr /\ ~ParseKey(r.PresharedKey).ok
    THEN InvalidParams(<<"invalid preshared key: ">> \o ParseKey(r.PresharedKey).msg)
    ELSE IF r.Endpoint # NoEndpointStr /\ ~ResolveUDPAddr(r.Endpoint).ok
    THEN InvalidParams(<<"invalid endpoint: ">> \o ResolveUDPAddr(r.Endpoint).msg)
    ELSE IF r.PersistentKeepAlive # NoDurationStr /\ ~ParseDuration(r.PersistentKeepAlive).ok
    THEN InvalidParams(<<"invalid keepalive: ">> \o ParseDuration(r.PersistentKeepAlive).msg)
    ELSE Nil

validateAddPeerRequest(r) ==
    IF r = Nil THEN InvalidParams(<<"request body required">>)
    ELSE IF validatePublicKey(r.PublicKey) # Nil THEN validatePublicKey(r.PublicKey)
    ELSE IF r.PresharedKey # EmptyStr /\ r.PresharedKey.len # 44
    THEN InvalidParams(<<"malformed preshared key">>)
    ELSE IF r.PresharedKey # EmptyStr /\ ~ParseKey(r.PresharedKey).ok
    THEN InvalidParams(<<"invalid preshared key: ">> \o ParseKey(r.PresharedKey).msg)
    ELSE IF r.Endpoint # NoEndpointStr /\ ~ResolveUDPAddr(r.Endpoint).ok
    THEN InvalidParams(<<"invalid endpoint: ">> \o ResolveUDPAddr(r.Endpoint).msg)
    ELSE IF r.PersistentKeepAlive # NoDurationStr /\ ~ParseDuration(r.PersistentKeepAlive).ok
    THEN InvalidParams(<<"invalid keepalive: ">> \o ParseDuration(r.PersistentKeepAlive).msg)
    ELSE IF FirstBadCIDR(r.AllowedIPs) # <<>>
    THEN InvalidParams(RangeNotValid(FirstBadCIDR(r.AllowedIPs)[1]))
    ELSE Nil

\* The wgtypes.PeerConfig that AddPeer builds from a request, field by
\* field: [err, peer]; err is the error of the first conversion that fails.
AddPeerConfig(r) ==
    LET publicKey == ParseKey(r.PublicKey)
        pk == ParseKey(r.PresharedKey)
        addr == ResolveUDPAddr(r.Endpoint)
        d == ParseDuration(r.PersistentKeepAlive)
        peer == [PeerConfig(publicKey.key) EXCEPT
                    !.PresharedKey = IF r.PresharedKey # EmptyStr THEN <<pk.key>> ELSE <<>>,
                    !.Endpoint = IF r.Endpoint # NoEndpointStr THEN addr.addr ELSE <<>>,
                    !.PersistentKeepaliveInterval =
                        IF r.PersistentKeepAlive # NoDurationStr THEN <<d.d>> ELSE <<>>,
                    !.AllowedIPs = [i \in 1..Len(r.AllowedIPs) |-> ParseCIDR(r.AllowedIPs[i]).net]]
    IN
    IF ~publicKey.ok
    THEN [err |-> InvalidParams(<<"invalid public key: ">> \o publicKey.msg), peer |-> Nil]
    ELSE IF r.PresharedKey # EmptyStr /\ ~pk.ok
    THEN [err |-> InvalidParams(<<"invalid preshared key: ">> \o pk.msg), peer |-> Nil]
    ELSE IF r.Endpoint # NoEndpointStr /\ ~addr.ok
    THEN [err |-> InvalidParams(<<"invalid endpoint: ">> \o addr.msg), peer |-> Nil]
    ELSE IF r.PersistentKeepAlive # NoDurationStr /\ ~d.ok
    THEN [err |-> InvalidParams(<<"invalid keepalive: ">> \o d.msg), peer |-> Nil]
    ELSE IF FirstBadCIDR(r.AllowedIPs) # <<>>
    THEN [err |-> InvalidParams(RangeNotValid(FirstBadCIDR(r.AllowedIPs)[1])), peer |-> Nil]
    ELSE [err |-> Nil, peer |-> peer]

\* AddPeer without the validate_only return
AddPeerAlwaysConfigures(r, tbl, up) ==
    LET verr == validateAddPeerRequest(r)
        pc == AddPeerConfig(r)
        cfg == Config(<<pc.peer>>)
        c == ConfigureDevice(tbl, up, deviceName, cfg) IN
    IF verr # Nil THEN Ret(Nil, verr, tbl, <<>>)
    ELSE IF pc.err # Nil THEN Ret(Nil, pc.err, tbl, <<>>)
    ELSE IF ~c.ok
    THEN Ret(Nil, Errorf(<<"could not configure WireGuard device: ">> \o c.msg), c.peers,
             <<ConfigureDeviceCall(deviceName, cfg)>>)
    ELSE Ret([type |-> "*AddPeerResponse", OK |-> TRUE], Nil, c.peers,
             <<ConfigureDeviceCall(deviceName, cfg)>>)

\* AddPeer leaving out the entries of allowed_ips that are no CIDR range
AddPeerSkipsBadRanges(r, tbl, up) ==
    LET good == [r EXCEPT !.AllowedIPs = SelectSeq(@, LAMBDA a : ParseCIDR(a).ok)]
        verr == validateAddPeerRequest(good)
        pc == AddPeerConfig(good)
        cfg == Config(<<pc.peer>>)
        c == ConfigureDevice(tbl, up, deviceName, cfg) IN
    IF verr # Nil THEN Ret(Nil, verr, tbl, <<>>)
    ELSE IF r.ValidateOnly THEN Ret([type |-> "*AddPeerResponse", OK |-> FALSE], Nil, tbl, <<>>)
    ELSE IF pc.err # Nil THEN Ret(Nil, pc.err, tbl, <<>>)
    ELSE IF ~c.ok
    THEN Ret(Nil, Errorf(<<"could not configure WireGuard device: ">> \o c.msg), c.peers,
             <<ConfigureDeviceCall(deviceName, cfg)>>)
    ELSE Ret([type |-> "*AddPeerResponse", OK |-> TRUE], Nil, c.peers,
             <<ConfigureDeviceCall(deviceName, cfg)>>)

AddPeer(r, tbl, up) ==
    LET verr == validateAddPeerRequest(r)
        pc == AddPeerConfig(r)
        cfg == Config(<<pc.peer>>)
        c == ConfigureDevice(tbl, up, deviceName, cfg) IN
    IF verr # Nil THEN Ret(Nil, verr, tbl, <<>>)
    ELSE IF r.ValidateOnly THEN Ret([type |-> "*AddPeerResponse", OK |-> FALSE], Nil, tbl, <<>>)
    ELSE IF pc.err # Nil THEN Ret(Nil, pc.err, tbl, <<>>)
    ELSE IF ~c.ok
    THEN Ret(Nil, Errorf(<<"could not configure WireGuard device: ">> \o c.msg), c.peers,
             <<ConfigureDeviceCall(deviceName, cfg)>>)
    ELSE Ret([type |-> "*AddPeerResponse", OK |-> TRUE], Nil, c.peers,
             <<ConfigureDeviceCall(deviceName, cfg)>>)

validateRemovePeerRequest(r) ==
    IF r = Nil THEN InvalidParams(<<"request body required">>)
    ELSE validatePublicKey(r.PublicKey)

\* RemovePeer configuring the device a second time when the first time fails
RemovePeerRetries(r, tbl, up) ==
    LET verr == validateRemovePeerRequest(r)
        publicKey == ParseKey(r.PublicKey)
        cfg == Config(<<[PeerConfig(publicKey.key) EXCEPT !.Remove = TRUE]>>)
        c == ConfigureDevice(tbl, up, deviceName, cfg) IN
    IF verr # Nil THEN Ret(Nil, verr, tbl, <<>>)
    ELSE IF r.ValidateOnly THEN Ret([type |-> "*RemovePeerResponse", OK |-> FALSE], Nil, tbl, <<>>)
    ELSE IF ~publicKey.ok
    THEN Ret(Nil, Errorf(<<"invalid public key: ">> \o publicKey.msg), tbl, <<>>)
    ELSE IF ~c.ok
    THEN Ret(Nil, Errorf(<<"could not configure WireGuard device: ">> \o c.msg), c.peers,
             <<ConfigureDeviceCall(deviceName, cfg), ConfigureDeviceCall(deviceName, cfg)>>)
    ELSE Ret([type |-> "*RemovePeerResponse", OK |-> TRUE], Nil, c.peers,
             <<ConfigureDeviceCall(deviceName, cfg)>>)

RemovePeer(r, tbl, up) ==
    LET verr == validateRemovePeerRequest(r)
        publicKey == ParseKey(r.PublicKey)
        cfg == Config(<<[PeerConfig(publicKey.key) EXCEPT !.Remove = TRUE]>>)
        c == ConfigureDevice(tbl, up, deviceName, cfg) IN
    IF verr # Nil THEN Ret(Nil, verr, tbl, <<>>)
    ELSE IF r.ValidateOnly THEN Ret([type |-> "*RemovePeerResponse", OK |-> FALSE], Nil, tbl, <<>>)
    ELSE IF ~publicKey.ok
    THEN Ret(Nil, Errorf(<<"invalid public key: ">> \o publicKey.msg), tbl, <<>>)
    ELSE IF ~c.ok
    THEN Ret(Nil, Errorf(<<"could not configure WireGuard device: ">> \o c.msg), c.peers,
             <<ConfigureDeviceCall(deviceName, cfg)>>)
    ELSE Ret([type |-> "*RemovePeerResponse", OK |-> TRUE], Nil, c.peers,
             <<ConfigureDeviceCall(deviceName, cfg)>>)

(***************************************************************************)
(* JSON: the params payload (a json.RawMessage) and its decoding.          *)
(*                                                                         *)
(* A payload is [kind, obj]: kind "null" is the JSON null, "badtype" is    *)
(* JSON that does not fit the parameter structure (an array, a string, an  *)
(* object with a field of the wrong type), "object" is an object whose     *)
(* fields are obj's, each optional.  NoParams is the empty RawMessage of   *)
(* an envelope without params.                                             *)
(***************************************************************************)
EmptyObject ==
    [limit |-> <<>>, offset |-> <<>>, public_key |-> <<>>, preshared_key |-> <<>>,
     endpoint |-> <<>>, persistent_keep_alive |-> <<>>, allowed_ips |-> <<>>,
     validate_only |-> <<>>]

NoParams == [kind |-> "absent", obj |-> EmptyObject]

NullParams == [kind |-> "null", obj |-> EmptyObject]

BadTypeParams == [kind |-> "badtype", obj |-> EmptyObject]

ObjectParams(obj) == [kind |-> "object", obj |-> obj]

\* json.Unmarshal(r.Params, &arg), where arg is the zero value of the
\* structure and fields(obj) the structure filled from an object: [ok, arg, msg]
\* a decoding that takes every payload that is no object for the zero value
UnmarshalLenient(params, zero, filled) ==
    IF params.kind = "object" THEN [ok |-> TRUE, arg |-> filled, msg |-> <<>>]
    ELSE [ok |-> TRUE, arg |-> zero, msg |-> <<>>]

Unmarshal(params, zero, filled) ==
    IF params.kind = "absent"
    THEN [ok |-> FALSE, arg |-> zero, msg |-> <<"unexpected end of JSON input">>]
    ELSE IF params.kind = "badtype"
    THEN [ok |-> FALSE, arg |-> zero, msg |-> <<"json: cannot unmarshal">>]
    ELSE IF params.kind = "null" THEN [ok |-> TRUE, arg |-> zero, msg |-> <<>>]
    ELSE [ok |-> TRUE, arg |-> filled, msg |-> <<>>]

ListPeersRequest(obj) == [Limit |-> Opt(obj.limit, 0), Offset |-> Opt(obj.offset, 0)]

GetPeerRequest(obj) == [PublicKey |-> Opt(obj.public_key, EmptyStr)]

AddPeerRequest(obj) ==
    [PublicKey |-> Opt(obj.public_key, EmptyStr),
     PresharedKey |-> Opt(obj.preshared_key, EmptyStr),
     Endpoint |-> Opt(obj.endpoint, NoEndpointStr),
     PersistentKeepAlive |-> Opt(obj.persistent_keep_alive, NoDurationStr),
     AllowedIPs |-> Opt(obj.allowed_ips, <<>>),
     ValidateOnly |-> Opt(obj.validate_only, FALSE)]

RemovePeerRequest(obj) ==
    [PublicKey |-> Opt(obj.public_key, EmptyStr),
     ValidateOnly |-> Opt(obj.validate_only, FALSE)]

(***************************************************************************)
(* Server.ServeJSONRPC: [res, peers, calls], res being what it hands to    *)
(* w.Write.                                                                *)
(***************************************************************************)
\* the handler's error handed to Write as it is
OutcomeErrorAsIs(h) ==
    [res |-> IF h.err # Nil THEN h.err ELSE h.res, peers |-> h.peers, calls |-> h.calls]

\* the handler's result handed to Write even when it returned an error
OutcomeDropsError(h) == [res |-> h.res, peers |-> h.peers, calls |-> h.calls]

\* res, err = s.Method(...); if err != nil { res = jsonrpc.ServerError(-32000, err.Error(), nil) }
Outcome(h) ==
    [res |-> IF h.err # Nil THEN ServerError(-32000, ErrorString(h.err)) ELSE h.res,
     peers |-> h.peers, calls |-> h.calls]

\* err := json.Unmarshal(r.Params, &arg); if err != nil { res = jsonrpc.ParseError(err.Error(), nil) }
Undecodable(u, tbl) == [res |-> ParseError(u.msg), peers |-> tbl, calls |-> <<>>]

ServeJSONRPC(r, tbl, up) ==
    IF r.Method = "GetDeviceInfo" THEN Outcome(GetDeviceInfo(tbl, up))
    ELSE IF r.Method = "ListPeers"
    THEN LET u == Unmarshal(r.Params, ListPeersRequest(EmptyObject), ListPeersRequest(r.Params.obj))
         IN IF ~u.ok THEN Undecodable(u, tbl) ELSE Outcome(ListPeers(u.arg, tbl, up))
    ELSE IF r.Method = "GetPeer"
    THEN LET u == Unmarshal(r.Params, GetPeerRequest(EmptyObject), GetPeerRequest(r.Params.obj))
         IN IF ~u.ok THEN Undecodable(u, tbl) ELSE Outcome(GetPeer(u.arg, tbl, up))
    ELSE IF r.Method = "AddPeer"
    THEN LET u == Unmarshal(r.Params, AddPeerRequest(EmptyObject), AddPeerRequest(r.Params.obj))
         IN IF ~u.ok THEN Undecodable(u, tbl) ELSE Outcome(AddPeer(u.arg, tbl, up))
    ELSE IF r.Method = "RemovePeer"
    THEN LET u == Unmarshal(r.Params, RemovePeerRequest(EmptyObject), RemovePeerRequest(r.Params.obj))
         IN IF ~u.ok THEN Undecodable(u, tbl) ELSE Outcome(RemovePeer(u.arg, tbl, up))
    ELSE [res |-> MethodNotFound(<<"method not found">>), peers |-> tbl, calls |-> <<>>]

(***************************************************************************)
(* jsonrpc.HTTP: the HTTP handler around a jsonrpc.Handler.                *)
(*                                                                         *)
(* An HTTP request is [verb, ctype, body]; ctype is the Content-Type       *)
(* header as the sequence of its parts (media type first), body is         *)
(* [kind, obj]: "malformed" is not JSON, "wrongtype" is JSON that does not *)
(* fit a Request (a number, an array, a method that is no string), "null"  *)
(* is the JSON null and "object" an object whose fields are obj's.         *)
(***************************************************************************)
ContentType == "application/json"

\* strings.HasPrefix(hdr, ContentType)
HasPrefix(hdr, prefix) == hdr # <<>> /\ hdr[1] = prefix

EmptyEnvelope == [jsonrpc |-> <<>>, method |-> <<>>, params |-> <<>>, id |-> <<>>]

\* The Request a body object decodes to; ID and Params are raw JSON.
Request(obj) ==
    [Version |-> Opt(obj.jsonrpc, ""), Method |-> Opt(obj.method, ""),
     Params |-> Opt(obj.params, NoParams), ID |-> Opt(obj.id, "")]

\* json.NewDecoder(r.Body).Decode(req): [ok, req, msg]
Decode(body) ==
    IF body.kind = "malformed"
    THEN [ok |-> FALSE, req |-> Request(EmptyEnvelope), msg |-> <<"invalid character">>]
    ELSE IF body.kind = "wrongtype"
    THEN [ok |-> FALSE, req |-> Request(EmptyEnvelope), msg |-> <<"json: cannot unmarshal">>]
    ELSE IF body.kind = "null" THEN [ok |-> TRUE, req |-> Request(EmptyEnvelope), msg |-> <<>>]
    ELSE [ok |-> TRUE, req |-> Request(body.obj), msg |-> <<>>]

\* http.Error(w, text, status)
HTTPError(text, status) ==
    [status |-> status, ctype |-> "text/plain; charset=utf-8", text |-> text,
     envelope |-> Nil]

\* An id that is a JSON string with a character the encoder escapes.
StringID == "\"a<b\""

\* The encoder writes a json.RawMessage compacted and with '<', '>' and '&'
\* escaped; of the ids used here only StringID is changed by that.
Compact(raw) == IF raw = StringID THEN "\"a\\u003cb\"" ELSE raw

\* json.NewEncoder(w).Encode(res) with status 200: a nil Result or Error is
\* left out (omitempty, here Nil), an empty ID is written as null.
Encode(res) ==
    [status |-> 200, ctype |-> ContentType, text |-> <<>>,
     envelope |-> [jsonrpc |-> res.Version, result |-> res.Result, error |-> res.Error,
                   id |-> IF res.ID = "" THEN "null" ELSE Compact(res.ID)]]

\* The exchange for request h against provider state (tbl, up):
\* [resp, peers, calls]
Exchange(h, tbl, up) ==
    LET d == Decode(h.body)
        s == ServeJSONRPC(d.req, tbl, up)
        res == Write(NewResponse(d.req.ID), s.res).r
    IN
    IF h.verb # "POST"
    THEN [resp |-> HTTPError(<<"method not allowed">>, 405), peers |-> tbl, calls |-> <<>>]
    ELSE IF ~HasPrefix(h.ctype, ContentType)
    THEN [resp |-> HTTPError(<<"unknown content type">>, 400), peers |-> tbl, calls |-> <<>>]
    ELSE IF ~d.ok
    THEN [resp |-> HTTPError(<<"invalid request: ">> \o d.msg, 400), peers |-> tbl,
          calls |-> <<>>]
    ELSE [resp |-> Encode(res), peers |-> s.peers, calls |-> s.calls]

\* One HTTP exchange, from the request to the response written.
HTTP(h) ==
    \E x \in {Exchange(h, peers, devUp)} :
    /\ req' = h
    /\ resp' = x.resp
    /\ peers' = x.peers
    /\ calls' = x.calls
    /\ UNCHANGED <<devUp, w, ret, nwrites, made, authTokens, flights>>

\* The device appears or disappears (the interface is deleted or created
\* again with the table it had); the last exchange is forgotten.
ProviderChange ==
    /\ devUp' = ~devUp
    /\ req' = NoReq
    /\ resp' = NoResp
    /\ calls' = <<>>
    /\ UNCHANGED <<peers, w, ret, nwrites, made, authTokens, flights>>

\* A peer is removed from the device by other means than this server (wg,
\* another client of the provider); no exchange is in progress.
ExternalChange ==
    /\ \E i \in 1..Len(peers) :
          peers' = SubSeq(peers, 1, i - 1) \o SubSeq(peers, i + 1, Len(peers))
    /\ req' = NoReq
    /\ resp' = NoResp
    /\ calls' = <<>>
    /\ UNCHANGED <<devUp, w, ret, nwrites, made, authTokens, flights>>

(***************************************************************************)
(* jsonrpc.HTTP called for several requests at the same time: net/http     *)
(* runs the handler in one goroutine per connection.  A call in progress   *)
(* is [stage, h, req, res, seen, calls, out]: h the HTTP request, req and  *)
(* res the objects the call allocates, seen the provider state its handler *)
(* met, calls the provider calls it made, out the HTTP response written.   *)
(* The steps of a call are its arrival (up to the response object being    *)
(* made), the dispatch (ServeJSONRPC, with at most one provider call) and  *)
(* the reply (the encoding of the response).                               *)
(***************************************************************************)
Idle ==
    [stage |-> "idle", h |-> NoReq, req |-> Request(EmptyEnvelope), res |-> NewResponse(""),
     seen |-> [peers |-> <<>>, up |-> TRUE], calls |-> <<>>, out |-> NoResp]

NoFlights == [i \in 1..MaxFlights |-> Idle]

\* one Request and one response object that every call in progress uses
LocalsShared(fl, i) == [req |-> fl[1].req, res |-> fl[1].res]

\* req := new(Request); res := &response{...}: the objects of call i
Locals(fl, i) == [req |-> fl[i].req, res |-> fl[i].res]

\* The call as jsonrpc.HTTP leaves it before hf.ServeJSONRPC(res, req):
\* answered if the request is refused, else with req and res made.
Arrived(h) ==
    LET d == Decode(h.body) IN
    IF h.verb # "POST"
    THEN [Idle EXCEPT !.stage = "sent", !.h = h,
                      !.out = HTTPError(<<"method not allowed">>, 405)]
    ELSE IF ~HasPrefix(h.ctype, ContentType)
    THEN [Idle EXCEPT !.stage = "sent", !.h = h,
                      !.out = HTTPError(<<"unknown content type">>, 400)]
    ELSE IF ~d.ok
    THEN [Idle EXCEPT !.stage = "sent", !.h = h,
                      !.out = HTTPError(<<"invalid request: ">> \o d.msg, 400)]
    ELSE [Idle EXCEPT !.stage = "decoded", !.h = h, !.req = d.req,
                      !.res = NewResponse(d.req.ID)]

\* Request h arrives and becomes call i.
Arrive(i, h) ==
    /\ flights[i].stage = "idle"
    /\ flights' = [flights EXCEPT ![i] = Arrived(h)]
    /\ UNCHANGED <<peers, devUp, req, resp, calls, w, ret, nwrites, made, authTokens>>

\* hf.ServeJSONRPC(res, req) of call i, against the provider as it is now.
Dispatch(i) ==
    /\ flights[i].stage = "decoded"
    /\ \E l \in {Locals(flights, i)} :
       \E s \in {ServeJSONRPC(l.req, peers, devUp)} :
          /\ peers' = s.peers
          /\ flights' = [flights EXCEPT ![i].stage = "served",
                                        ![i].res = Write(l.res, s.res).r,
                                        ![i].seen = [peers |-> peers, up |-> devUp],
                                        ![i].calls = s.calls]
    /\ UNCHANGED <<devUp, req, resp, calls, w, ret, nwrites, made, authTokens>>

\* json.NewEncoder(w).Encode(res) of call i.
Reply(i) ==
    /\ flights[i].stage = "served"
    /\ flights' = [flights EXCEPT ![i].stage = "sent",
                                  ![i].out = Encode(Locals(flights, i).res)]
    /\ UNCHANGED <<peers, devUp, req, resp, calls, w, ret, nwrites, made, authTokens>>

(***************************************************************************)
(* The HTTP middleware and the handler main builds from it.                *)
(*                                                                         *)
(* The text of a header or of a token is the sequence of its words and     *)
(* spaces (" "); <<>> is the empty text, which is also what                *)
(* r.Header.Get gives for a header that is not there.  Such a request is   *)
(* a request as above with two more fields: authorization, the text of     *)
(* its Authorization header, and headers, the names of its other headers.  *)
(***************************************************************************)
\* http.Error(w, "forbidden", http.StatusForbidden)
Forbidden == HTTPError(<<"forbidden">>, 403)

\* headersExist(r.Header, keys...)
headersExist(h, keys) == \E key \in keys : key \in h

\* PreventReferer(next), next being what the next handler does
PreventReferer(r, next, tbl) ==
    IF headersExist(r.headers, {"Referer", "Origin"})
    THEN [resp |-> Forbidden, peers |-> tbl, calls |-> <<>>]
    ELSE next

\* strings.TrimPrefix(s, prefix)
TrimPrefix(s, prefix) ==
    IF Len(s) >= Len(prefix) /\ SubSeq(s, 1, Len(prefix)) = prefix
    THEN SubSeq(s, Len(prefix) + 1, Len(s))
    ELSE s

RECURSIVE TrimLeft(_)
TrimLeft(s) == IF s # <<>> /\ Head(s) = " " THEN TrimLeft(Tail(s)) ELSE s

RECURSIVE TrimRight(_)
TrimRight(s) ==
    IF s # <<>> /\ s[Len(s)] = " " THEN TrimRight(SubSeq(s, 1, Len(s) - 1)) ELSE s

\* strings.TrimSpace(s)
TrimSpace(s) == TrimRight(TrimLeft(s))

stringInSlice(s, vv) == \E i \in 1..Len(vv) : vv[i] = s

\* the scheme of the Authorization header, "Token "
TokenScheme == <<"Token", " ">>

\* AuthTokens letting through every header that begins with the scheme
AuthTokensSchemeOnly(tokens, r, next, tbl) ==
    IF TrimPrefix(r.authorization, TokenScheme) = r.authorization
    THEN [resp |-> Forbidden, peers |-> tbl, calls |-> <<>>]
    ELSE next

\* AuthTokens(tokens...)(next), next being what the next handler does
AuthTokens(tokens, r, next, tbl) ==
    LET token == TrimSpace(TrimPrefix(r.authorization, TokenScheme)) IN
    IF ~stringInSlice(token, tokens)
    THEN [resp |-> Forbidden, peers |-> tbl, calls |-> <<>>]
    ELSE next

\* The handler main gives the http.Server, for the tokens it collected:
\* PreventReferer around AuthTokens (when there are tokens) around
\* jsonrpc.HTTP.
Handler(r, tokens, tbl, up) ==
    PreventReferer(r,
                   IF Len(tokens) > 0
                   THEN AuthTokens(tokens, r, Exchange(r, tbl, up), tbl)
                   ELSE Exchange(r, tbl, up),
                   tbl)

RECURSIVE Split(_, _)
\* strings.Split(s, sep) for a separator of one character: the texts
\* between the separators, <<s>> when there is none
Split(s, sep) ==
    IF \A i \in 1..Len(s) : s[i] # sep THEN <<s>>
    ELSE LET i == CHOOSE i \in 1..Len(s) : s[i] = sep /\ \A j \in 1..(i - 1) : s[j] # sep
         IN <<SubSeq(s, 1, i - 1)>> \o Split(SubSeq(s, i + 1, Len(s)), sep)

\* envArray(name), env being os.Getenv(name): <<>> is nil
envArray(env) ==
    IF env = <<>> THEN <<>>
    ELSE [i \in 1..Len(Split(env, ",")) |-> TrimSpace(Split(env, ",")[i])]

\* *authTokens once main has added the tokens of WGAPI_TOKENS to those of
\* the --token flags
CollectTokens(flags, env) ==
    IF Len(envArray(env)) > 0 THEN flags \o envArray(env) ELSE flags

\* One HTTP exchange with the server main runs.
ServeHTTP(h) ==
    \E x \in {Handler(h, authTokens, peers, devUp)} :
    /\ req' = h
    /\ resp' = x.resp
    /\ peers' = x.peers
    /\ calls' = x.calls
    /\ UNCHANGED <<devUp, w, ret, nwrites, made, authTokens, flights>>

(***************************************************************************)
(* Direct use of package jsonrpc.                                          *)
(***************************************************************************)
\* w.Write(v) on the response object w
WriteCall(v) ==
    /\ nwrites < MaxWrites
    /\ w' = Write(w, v).r
    /\ ret' = Write(w, v).ret
    /\ nwrites' = nwrites + 1
    /\ UNCHANGED <<peers, devUp, req, resp, calls, made, authTokens, flights>>

\* a new response object replaces w
NewResponseCall ==
    /\ w' = NewResponse("7")
    /\ ret' = Nil
    /\ nwrites' = 0
    /\ UNCHANGED <<peers, devUp, req, resp, calls, made, authTokens, flights>>

\* jsonrpc.ServerError(code, message, nil)
ServerErrorCall(code, message) ==
    /\ made' = ServerError(code, message)
    /\ UNCHANGED <<peers, devUp, req, resp, calls, w, ret, nwrites, authTokens, flights>>

(***************************************************************************)
(* The requests and provider states the specifications draw from.          *)
(***************************************************************************)
K1 == GoodKeyStr(1)

K2 == GoodKeyStr(2)

PSK == GoodKeyStr(5)

E1 == EndpointStr("192.0.2.1", "51820")

\* no port
BadEndpoint == EndpointStr("192.0.2.1", "")

D25 == DurationStr(25, "s")

\* no unit
BadDuration == DurationStr(25, "")

\* the network 0/1
N0 == CIDRStr(0, 1)

\* the network 2/1
N2 == CIDRStr(2, 1)

\* more prefix bits than the address has
BadCIDR == CIDRStr(0, 3)

\* an address outside the address space
BadCIDR2 == CIDRStr(5, 1)

Methods == {"GetDeviceInfo", "ListPeers", "GetPeer", "AddPeer", "RemovePeer"}

SeqsUpTo(S, n) == UNION {[1..k -> S] : k \in 0..n}

Present(S) == {<<x>> : x \in S}

Optional(S) == {<<>>} \cup Present(S)

ListPeersObjects(nums) ==
    {[EmptyObject EXCEPT !.limit = l, !.offset = o] : l \in Optional(nums), o \in Optional(nums)}

KeyObjects(pks, vos) ==
    {[EmptyObject EXCEPT !.public_key = k, !.validate_only = v] : k \in pks, v \in vos}

AddPeerObjects(pks, psks, eps, kas, cidrs, vos) ==
    {[EmptyObject EXCEPT !.public_key = k, !.preshared_key = p, !.endpoint = e,
                         !.persistent_keep_alive = d, !.allowed_ips = <<a>>,
                         !.validate_only = v] :
        k \in pks, p \in psks, e \in eps, d \in kas, a \in SeqsUpTo(cidrs, MaxIPs), v \in vos}

\* A well-formed JSON-RPC 2.0 call with id 7, as an HTTP request.
Call(method, params) ==
    [verb |-> "POST", ctype |-> <<ContentType>>,
     body |-> [kind |-> "object",
               obj |-> [jsonrpc |-> <<"2.0">>, method |-> <<method>>,
                        params |-> <<params>>, id |-> <<"7">>]]]

Calls(method, objects) == {Call(method, ObjectParams(o)) : o \in objects}

\* Payloads that are no object of the method's parameters.
OddParams == {NullParams, BadTypeParams}

\* Public key texts, each optional: absent, too short, 44 characters that
\* do not decode, 44 characters that decode to 31 bytes, and a key.
PublicKeyTexts == Optional({ShortKeyStr, IllegalKeyStr, Pad2KeyStr, K1})

PresharedKeyTexts == Optional({ShortKeyStr, IllegalKeyStr, PSK})

\* Requests that differ in every parameter a validator looks at.
ParamRequests ==
    Calls("ListPeers", ListPeersObjects({-1, 0, 1, 5}))
    \cup Calls("GetPeer", KeyObjects(PublicKeyTexts \cup {<<K2>>, <<EmptyStr>>}, {<<>>}))
    \cup Calls("RemovePeer", KeyObjects(PublicKeyTexts \cup {<<K2>>}, Optional(BOOLEAN)))
    \cup Calls("AddPeer", AddPeerObjects(PublicKeyTexts, PresharedKeyTexts,
                                        Optional({E1, BadEndpoint}),
                                        Optional({D25, BadDuration}),
                                        {N2, BadCIDR}, {<<>>, <<TRUE>>}))

\* Key texts of every length around 44, with and without characters outside
\* the base64 alphabet, with every padding; and the empty text.
KeyTexts ==
    {EmptyStr} \cup {KeyStr(l, a, p, 3) : l \in {4, 40, 43, 44, 45, 48}, a \in BOOLEAN, p \in 0..2}

\* Requests that differ in the text of a key.
KeyRequests ==
    Calls("GetPeer", KeyObjects(Present(KeyTexts), {<<>>}))
    \cup Calls("RemovePeer", KeyObjects(Present(KeyTexts), {<<>>, <<TRUE>>}))
    \cup Calls("AddPeer", AddPeerObjects(Present(KeyTexts), {<<>>, <<PSK>>}, {<<>>}, {<<>>},
                                        {}, {<<>>}))
    \cup Calls("AddPeer", AddPeerObjects({<<K1>>}, Present(KeyTexts), {<<>>, <<E1>>}, {<<>>},
                                        {}, {<<>>}))

\* AddPeer requests that differ in their allowed_ips: lists of ranges and of
\* texts that are no range, in every order.
RangeRequests ==
    Calls("AddPeer", AddPeerObjects({<<K1>>, <<K2>>}, {<<>>}, {<<>>}, {<<>>, <<BadDuration>>},
                                    {N0, N2, BadCIDR, BadCIDR2}, {<<>>, <<TRUE>>}))

\* Requests that differ in the envelope: version tag, method name, id and
\* the kind of the params payload.
EnvelopeRequests ==
    {[verb |-> "POST", ctype |-> <<ContentType>>,
      body |-> [kind |-> "object",
                obj |-> [jsonrpc |-> v, method |-> m, params |-> p, id |-> i]]] :
        v \in Optional({"2.0", "1.0"}),
        m \in Optional(Methods \cup {"DeleteEverything", ""}),
        p \in Optional(OddParams \cup {ObjectParams(EmptyObject),
                       ObjectParams([EmptyObject EXCEPT !.public_key = <<K1>>])}),
        i \in Optional({"null", "7", StringID})}

\* Requests that differ in what the HTTP layer looks at.
TransportRequests ==
    {[verb |-> vb, ctype |-> ct, body |-> b] :
        vb \in {"POST", "GET"},
        ct \in {<<>>, <<ContentType>>, <<ContentType, "; charset=utf-8">>, <<"text/plain">>},
        b \in {[kind |-> k, obj |-> EmptyEnvelope] : k \in {"malformed", "wrongtype", "null"}}
              \cup {Call("GetDeviceInfo", ObjectParams(EmptyObject)).body,
                    Call("AddPeer", ObjectParams([EmptyObject EXCEPT !.public_key = <<K2>>])).body}}

OnceRequests == ParamRequests \cup KeyRequests \cup RangeRequests \cup EnvelopeRequests \cup TransportRequests

\* A peer with every optional setting made.
FullPeer(key) ==
    UpdatePeer(NewPeer(key),
               [PeerConfig(key) EXCEPT !.PresharedKey = <<5>>, !.Endpoint = <<E1>>,
                                       !.PersistentKeepaliveInterval = <<25>>,
                                       !.AllowedIPs = <<N0>>])

\* Peer tables a request may find.
OnceTables == {<<>>, <<FullPeer(1)>>, <<NewPeer(2), FullPeer(1)>>}

\* The calls of the sequential specification: every method, two keys, and
\* allowed_ips lists over two networks; one request of each kind that a
\* validator rejects.
SeqRequests ==
    {Call("GetDeviceInfo", ObjectParams(EmptyObject)),
     Call("GetDeviceInfo", NoParams),
     Call("ListPeers", ObjectParams(EmptyObject)),
     Call("ListPeers", ObjectParams([EmptyObject EXCEPT !.limit = <<-1>>])),
     Call("DeleteEverything", ObjectParams(EmptyObject))}
    \cup Calls("GetPeer", KeyObjects({<<K1>>, <<K2>>, <<ShortKeyStr>>}, {<<>>}))
    \cup Calls("RemovePeer", KeyObjects({<<K1>>, <<K2>>, <<>>}, {<<>>, <<TRUE>>}))
    \cup Calls("AddPeer", AddPeerObjects({<<K1>>, <<K2>>}, {<<>>}, {<<>>}, {<<>>},
                                        {N0, N2}, {<<>>, <<TRUE>>}))
    \cup Calls("AddPeer", AddPeerObjects({<<K1>>, <<K2>>}, {<<PSK>>}, {<<E1>>}, {<<D25>>},
                                        {}, {<<>>}))
    \cup Calls("AddPeer", AddPeerObjects({<<K1>>}, {<<>>}, {<<>>}, {<<>>}, {BadCIDR}, {<<>>}))

\* Tokens: two words, the empty token and a token that begins with a space.
Secret == <<"s3cret">>

OtherToken == <<"other">>

SpacedToken == <<" ", "s3cret">>

\* What --token may have been given: nothing, a token, a token that begins
\* with a space, the empty text.
FlagLists == {<<>>, <<Secret>>, <<SpacedToken>>, <<<<>>>>}

\* What WGAPI_TOKENS may hold: nothing, a token, two tokens with a space
\* after the comma, a token and a comma after it, a space.
EnvTexts ==
    {<<>>, OtherToken, Secret \o <<",", " ">> \o OtherToken, Secret \o <<",">>, <<" ">>}

\* The token lists main may have collected; <<>>: no token was given.
TokenLists == {CollectTokens(flags, env) : flags \in FlagLists, env \in EnvTexts}

\* Authorization headers: none, a token with and without the scheme and
\* with more spaces, other schemes, the scheme alone.
AuthorizationTexts ==
    {<<>>, TokenScheme \o Secret, Secret, TokenScheme \o OtherToken,
     TokenScheme \o <<" ">> \o Secret, TokenScheme \o <<"wrong">>,
     <<"Bearer", " ">> \o Secret, <<"token", " ">> \o Secret,
     TokenScheme \o TokenScheme \o Secret, <<"Token">>}

\* The requests of the specification with middleware: calls that read and
\* calls that change the device, a body that does not decode, under every
\* Authorization header, from a browser or not.
AuthRequests ==
    {[verb |-> c.verb, ctype |-> c.ctype, body |-> c.body, authorization |-> a, headers |-> hs] :
        c \in {Call("GetDeviceInfo", NoParams),
               Call("ListPeers", ObjectParams(EmptyObject)),
               Call("AddPeer", ObjectParams([EmptyObject EXCEPT !.public_key = <<K1>>,
                                                               !.allowed_ips = <<<<N0>>>>])),
               Call("RemovePeer", ObjectParams([EmptyObject EXCEPT !.public_key = <<K1>>])),
               [verb |-> "POST", ctype |-> <<ContentType>>,
                body |-> [kind |-> "malformed", obj |-> EmptyEnvelope]]},
        a \in AuthorizationTexts,
        hs \in {{}, {"Referer"}, {"Origin", "User-Agent"}}}

\* A call with the id given: <<>> for none.
CallWithID(method, params, id) ==
    [Call(method, params) EXCEPT !.body.obj.id = id]

\* The requests that are served at the same time: calls that change and
\* calls that read the same peer, a call that gives its range to another
\* peer, ids that differ and ids that are the same, and a body that does
\* not decode.
ConcRequests ==
    {CallWithID("AddPeer", ObjectParams([EmptyObject EXCEPT !.public_key = <<K1>>,
                                                            !.allowed_ips = <<<<N0>>>>]),
                <<"7">>),
     CallWithID("AddPeer", ObjectParams([EmptyObject EXCEPT !.public_key = <<K2>>,
                                                            !.allowed_ips = <<<<N0>>>>]),
                <<"7">>),
     CallWithID("RemovePeer", ObjectParams([EmptyObject EXCEPT !.public_key = <<K1>>]), <<>>),
     CallWithID("GetPeer", ObjectParams([EmptyObject EXCEPT !.public_key = <<K1>>]),
                <<StringID>>),
     CallWithID("ListPeers", NoParams, <<"null">>),
     [verb |-> "POST", ctype |-> <<ContentType>>,
      body |-> [kind |-> "malformed", obj |-> EmptyEnvelope]]}

\* What a handler may hand to Write.
WriteValues ==
    {[type |-> "*AddPeerResponse", OK |-> TRUE],
     [type |-> "*GetPeerResponse", Peer |-> <<>>],
     InvalidParams(<<"public key is required">>),
     MethodNotFound(<<"method not found">>),
     Errorf(<<"could not get WireGuard device: ">> \o NoSuchDevice)}

\* The reserved range of ServerError codes.
ReservedCodes == (-32099)..(-32000)

\* Codes given to ServerError: the reserved range, its neighbours and some
\* codes far from it.
CodeSamples ==
    ((-32099 - CodeMargin)..(-32000 + CodeMargin)) \cup {-32603, -32700, 0, 1, 32000}

(***************************************************************************)
(* Specifications.                                                         *)
(***************************************************************************)
\* The server after construction, the device present and without peers.
Init ==
    /\ peers = <<>>
    /\ devUp = TRUE
    /\ req = NoReq
    /\ resp = NoResp
    /\ calls = <<>>
    /\ w = NewResponse("7")
    /\ ret = Nil
    /\ nwrites = 0
    /\ made = Nil
    /\ authTokens = <<>>
    /\ flights = NoFlights

Serve == \E h \in SeqRequests : HTTP(h)

Next == Serve \/ ProviderChange \/ ExternalChange

\* Requests served one after the other by one server.
Spec == Init /\ [][Next]_vars

\* One request has arrived, whatever the state of the provider.
InitOnce ==
    /\ peers \in OnceTables
    /\ devUp \in BOOLEAN
    /\ req \in OnceRequests
    /\ resp = NoResp
    /\ calls = <<>>
    /\ w = NewResponse("7")
    /\ ret = Nil
    /\ nwrites = 0
    /\ made = Nil
    /\ authTokens = <<>>
    /\ flights = NoFlights

ServeOnce == HTTP(req)

\* Any one request against any provider state.
SpecOnce == InitOnce /\ [][ServeOnce]_vars

\* The server as main starts it, with the tokens it was given.
InitAuth ==
    /\ peers \in {<<>>, <<FullPeer(2)>>}
    /\ devUp = TRUE
    /\ req = NoReq
    /\ resp = NoResp
    /\ calls = <<>>
    /\ w = NewResponse("7")
    /\ ret = Nil
    /\ nwrites = 0
    /\ made = Nil
    /\ authTokens \in TokenLists
    /\ flights = NoFlights

ServeAuth == \E h \in AuthRequests : ServeHTTP(h)

NextAuth == ServeAuth \/ ProviderChange

\* Requests served one after the other through the middleware of main.
SpecAuth == InitAuth /\ [][NextAuth]_vars

WriteAny == \E v \in WriteValues : WriteCall(v)

ServerErrorAny == \E code \in CodeSamples : ServerErrorCall(code, <<"could not configure">>)

NextUnit == WriteAny \/ NewResponseCall \/ ServerErrorAny

\* Package jsonrpc used directly, as a handler or a test may use it.
SpecUnit == Init /\ [][NextUnit]_vars

ArriveAny == \E i \in 1..MaxFlights : \E h \in ConcRequests : Arrive(i, h)

DispatchAny == \E i \in 1..MaxFlights : Dispatch(i)

ReplyAny == \E i \in 1..MaxFlights : Reply(i)

NextConc == ArriveAny \/ DispatchAny \/ ReplyAny \/ ProviderChange

\* Requests served at the same time by one server.
SpecConc == Init /\ [][NextConc]_vars

(***************************************************************************)
(* What the properties speak of.                                           *)
(***************************************************************************)
Range(s) == {s[i] : i \in 1..Len(s)}

\* Whether message m ends with the parts of tail.
EndsWith(m, tail) ==
    /\ Len(m) >= Len(tail)
    /\ SubSeq(m, Len(m) - Len(tail) + 1, Len(m)) = tail

\* The exchange of request h has been answered with r.
Answered(h, r) == h # NoReq /\ r # NoResp

\* Request h passes the HTTP layer and its body decodes to an envelope.
Dispatched(h) ==
    /\ h # NoReq
    /\ h.verb = "POST"
    /\ HasPrefix(h.ctype, ContentType)
    /\ h.body.kind \in {"null", "object"}

\* The envelope of a dispatched request.
RPC(h) == Decode(h.body).req

\* The params of h decode into a parameter structure.
ParamsDecode(h) == RPC(h).Params.kind \in {"null", "object"}

\* The fields the params of h give.
ParamsObj(h) == IF RPC(h).Params.kind = "object" THEN RPC(h).Params.obj ELSE EmptyObject

\* h calls method with params that decode.
CallsMethod(h, method) == Dispatched(h) /\ RPC(h).Method = method /\ ParamsDecode(h)

\* The verdict of the method's validator on the params of h (Nil: valid).
ValidationError(h) ==
    IF RPC(h).Method = "ListPeers" THEN validateListPeersRequest(ListPeersRequest(ParamsObj(h)))
    ELSE IF RPC(h).Method = "GetPeer" THEN validateGetPeerRequest(GetPeerRequest(ParamsObj(h)))
    ELSE IF RPC(h).Method = "AddPeer" THEN validateAddPeerRequest(AddPeerRequest(ParamsObj(h)))
    ELSE IF RPC(h).Method = "RemovePeer"
    THEN validateRemovePeerRequest(RemovePeerRequest(ParamsObj(h)))
    ELSE Nil

ValidatedMethods == {"ListPeers", "GetPeer", "AddPeer", "RemovePeer"}

\* h reaches a validator, which rejects it.
FailsValidation(h) ==
    /\ Dispatched(h)
    /\ RPC(h).Method \in ValidatedMethods
    /\ ParamsDecode(h)
    /\ ValidationError(h) # Nil

\* h reaches a validator, which accepts it.
PassesValidation(h) ==
    /\ Dispatched(h)
    /\ RPC(h).Method \in ValidatedMethods
    /\ ParamsDecode(h)
    /\ ValidationError(h) = Nil

\* Response r is a JSON-RPC error response with this code.
IsErrorWithCode(r, code) ==
    /\ r.envelope # Nil
    /\ r.envelope.error # Nil
    /\ r.envelope.error.Code = code

\* Response r is a JSON-RPC response with this result and no error.
IsResult(r, result) ==
    /\ r.envelope # Nil
    /\ r.envelope.error = Nil
    /\ r.envelope.result = result

(***************************************************************************)
(* C1.                                                                     *)
(***************************************************************************)
\* C1: a ListPeers, GetPeer, AddPeer or RemovePeer request whose decoded
\* parameters fail validation is answered with an error of code -32602.
C1_InvalidParamsOnWire ==
    (Answered(req, resp) /\ FailsValidation(req)) => IsErrorWithCode(resp, -32602)

(***************************************************************************)
(* C2.                                                                     *)
(***************************************************************************)
AlreadyWritten == Errorf(<<"response already written">>)

\* C2: every Write made when a result or an error is already set fails with
\* "response already written" and leaves the stored result and error as
\* they were.
C2_WriteOnce ==
    [][(nwrites' = nwrites + 1 /\ (w.Result # Nil \/ w.Error # Nil))
        => (ret' = AlreadyWritten /\ w' = w)]_vars

(***************************************************************************)
(* C3.                                                                     *)
(***************************************************************************)
\* h is an AddPeer or RemovePeer call with validate_only true.
ValidateOnlyCall(h) ==
    \/ CallsMethod(h, "AddPeer") /\ AddPeerRequest(ParamsObj(h)).ValidateOnly
    \/ CallsMethod(h, "RemovePeer") /\ RemovePeerRequest(ParamsObj(h)).ValidateOnly

\* C3: AddPeer and RemovePeer with validate_only=true and parameters that
\* pass validation answer with the result ok=false, no error, and make no
\* provider call at all.
C3_ValidateOnly ==
    (Answered(req, resp) /\ ValidateOnlyCall(req) /\ PassesValidation(req))
        => /\ IsResult(resp, [type |-> "*" \o RPC(req).Method \o "Response", OK |-> FALSE])
           /\ calls = <<>>

\* An AddPeer with validate_only, a key, a preshared key and two ranges has
\* been answered while the device is there and holds peers.
C3_Witness ==
    /\ Answered(req, resp)
    /\ CallsMethod(req, "AddPeer")
    /\ AddPeerRequest(ParamsObj(req)).ValidateOnly
    /\ AddPeerRequest(ParamsObj(req)).PresharedKey = PSK
    /\ Len(AddPeerRequest(ParamsObj(req)).AllowedIPs) = 2
    /\ PassesValidation(req)
    /\ devUp
    /\ peers # <<>>

(***************************************************************************)
(* C4.                                                                     *)
(***************************************************************************)
\* C4: whenever validation of a ListPeers, GetPeer, AddPeer or RemovePeer
\* request fails, serving it makes no provider call and leaves the
\* provider's peer table as it was.
C4_ValidationFirst ==
    [][(Answered(req', resp') /\ FailsValidation(req')) => (calls' = <<>> /\ peers' = peers)]_vars

\* A ListPeers with a negative limit has been answered while the device is
\* there and holds peers.
C4_Witness ==
    /\ Answered(req, resp)
    /\ CallsMethod(req, "ListPeers")
    /\ ListPeersRequest(ParamsObj(req)).Limit < 0
    /\ FailsValidation(req)
    /\ devUp
    /\ peers # <<>>

(***************************************************************************)
(* C5.                                                                     *)
(***************************************************************************)
\* C5: a request whose method name is none of the five, the empty name
\* included, is answered with an error of code -32601 whatever its params,
\* and no provider call is made for it.
C5_MethodNotFound ==
    (Answered(req, resp) /\ Dispatched(req) /\ RPC(req).Method \notin Methods)
        => /\ IsErrorWithCode(resp, -32601)
           /\ resp.envelope.result = Nil
           /\ calls = <<>>

\* An envelope without a method name but with an AddPeer-like payload has
\* been answered.
C5_Witness ==
    /\ Answered(req, resp)
    /\ Dispatched(req)
    /\ RPC(req).Method = ""
    /\ RPC(req).Params.kind = "object"
    /\ RPC(req).Params.obj.public_key = <<K1>>

(***************************************************************************)
(* C6.                                                                     *)
(***************************************************************************)
\* The body of POST request h with the right content type does not decode.
Undecoded(h) ==
    /\ h # NoReq
    /\ h.verb = "POST"
    /\ HasPrefix(h.ctype, ContentType)
    /\ h.body.kind \in {"malformed", "wrongtype"}

\* C6: when the request body fails to decode, the caller receives a
\* JSON-RPC error with code -32700.
C6_ParseErrorOnBadBody ==
    (Answered(req, resp) /\ Undecoded(req)) => IsErrorWithCode(resp, -32700)

(***************************************************************************)
(* C7.                                                                     *)
(***************************************************************************)
\* C7: a well-formed envelope without a method name, or whose jsonrpc
\* version tag is missing or not "2.0", is answered with an error of code
\* -32600.
C7_InvalidRequest ==
    (Answered(req, resp) /\ Dispatched(req)
        /\ (RPC(req).Method = "" \/ RPC(req).Version # "2.0"))
        => IsErrorWithCode(resp, -32600)

(***************************************************************************)
(* C8.                                                                     *)
(***************************************************************************)
\* GetDeviceInfo has been answered while the provider cannot open the device.
FailedGetDeviceInfo ==
    /\ Answered(req, resp)
    /\ Dispatched(req)
    /\ RPC(req).Method = "GetDeviceInfo"
    /\ ~devUp

\* C8 as claimed: when the provider fails during GetDeviceInfo the response
\* carries an error with code -32603 whose message wraps the provider's.
C8_InternalError ==
    FailedGetDeviceInfo
        => /\ IsErrorWithCode(resp, -32603)
           /\ EndsWith(resp.envelope.error.Message, NoSuchDevice)

\* C8 as amended: when the provider fails during GetDeviceInfo the response
\* carries a ServerError, code -32000, and no result; its message is
\* "could not get WireGuard device: " followed by the provider's message.
C8_ServerError ==
    FailedGetDeviceInfo
        => /\ IsErrorWithCode(resp, -32000)
           /\ resp.envelope.result = Nil
           /\ resp.envelope.error.Message = <<"could not get WireGuard device: ">> \o NoSuchDevice
           /\ calls = <<DeviceCall(deviceName)>>

\* GetDeviceInfo has failed on a device that had peers.
C8_Witness == FailedGetDeviceInfo /\ peers # <<>> /\ RPC(req).Params = NoParams

(***************************************************************************)
(* C9.                                                                     *)
(***************************************************************************)
\* C9: ServerError never produces an Error whose code is outside
\* -32099..-32000.
C9_ReservedRange == made # Nil => made.Code \in ReservedCodes

(***************************************************************************)
(* C10.                                                                    *)
(***************************************************************************)
\* h is an AddPeer call that r says was carried out.
AddedPeer(h, r) ==
    /\ Answered(h, r)
    /\ CallsMethod(h, "AddPeer")
    /\ IsResult(r, [type |-> "*AddPeerResponse", OK |-> TRUE])

\* The key an AddPeer call names.
KeyOf(h) == ParseKey(AddPeerRequest(ParamsObj(h)).PublicKey).key

\* The networks an AddPeer call names.
NetsOf(h) == {ParseCIDR(a).net : a \in Range(AddPeerRequest(ParamsObj(h)).AllowedIPs)}

\* C10: after two successful AddPeer calls in a row with the same public key
\* and differing allowed_ips (neither list empty), the device has exactly
\* one peer with that key and its allowed IPs are those of the second call.
C10_Upsert ==
    [][(AddedPeer(req, resp) /\ AddedPeer(req', resp')
            /\ KeyOf(req) = KeyOf(req') /\ NetsOf(req) # NetsOf(req')
            /\ NetsOf(req) # {} /\ NetsOf(req') # {})
        => /\ Cardinality({i \in 1..Len(peers') : peers'[i].PublicKey = KeyOf(req')}) = 1
           /\ Range(PeerOf(peers', KeyOf(req')).AllowedIPs) = NetsOf(req')]_vars

(***************************************************************************)
(* C11.                                                                    *)
(***************************************************************************)
\* h is a GetPeer call whose public key is well formed, answered with r.
AnsweredGetPeer(h, r) ==
    /\ Answered(h, r)
    /\ CallsMethod(h, "GetPeer")
    /\ PassesValidation(h)

\* The key a GetPeer call names.
GetPeerKey(h) == ParseKey(GetPeerRequest(ParamsObj(h)).PublicKey).key

\* C11: GetPeer with a well-formed public key, the provider answering the
\* device query, returns a result and no error: with the peer field
\* unpopulated when no peer of the device has that key, with the peer that
\* has exactly that key otherwise.
C11_GetPeerUnknown ==
    (AnsweredGetPeer(req, resp) /\ devUp)
        => /\ resp.envelope # Nil
           /\ resp.envelope.error = Nil
           /\ resp.envelope.result.type = "*GetPeerResponse"
           /\ IF \E i \in 1..Len(peers) : peers[i].PublicKey = GetPeerKey(req)
              THEN /\ Len(resp.envelope.result.Peer) = 1
                   /\ resp.envelope.result.Peer[1].PublicKey = GoodKeyStr(GetPeerKey(req))
                   /\ \E i \in 1..Len(peers) : resp.envelope.result.Peer[1] = peer2rpc(peers[i])
              ELSE resp.envelope.result.Peer = <<>>

\* A GetPeer for a key that none of the device's peers has was answered by
\* a device that holds peers.
C11_Witness ==
    /\ AnsweredGetPeer(req, resp)
    /\ devUp
    /\ peers # <<>>
    /\ \A i \in 1..Len(peers) : peers[i].PublicKey # GetPeerKey(req)

(***************************************************************************)
(* C12.                                                                    *)
(***************************************************************************)
\* The JSON value that the text of an id denotes, as its text without
\* escapes.
JSONValue(raw) == IF raw = "\"a\\u003cb\"" THEN "\"a<b\"" ELSE raw

\* The id of the envelope of h, null when it has none.
IDOf(h) == IF RPC(h).ID = "" THEN "null" ELSE RPC(h).ID

\* C12: every response envelope written for a decoded request carries the
\* id of that request, null when the request had none, whether it holds a
\* result or an error.
C12_EchoID ==
    (Answered(req, resp) /\ Dispatched(req))
        => /\ resp.envelope # Nil
           /\ JSONValue(resp.envelope.id) = JSONValue(IDOf(req))

\* An error response has been written for a request whose id is a string.
C12_Witness ==
    /\ Answered(req, resp)
    /\ Dispatched(req)
    /\ RPC(req).ID = StringID
    /\ resp.envelope # Nil
    /\ resp.envelope.error # Nil

(***************************************************************************)
(* C13.                                                                    *)
(***************************************************************************)
\* C13: every response envelope that is encoded and sent has exactly one of
\* result and error set, for every method and every outcome of validation
\* and of the provider.
C13_ResultXorError ==
    (Answered(req, resp) /\ resp.envelope # Nil)
        => (resp.envelope.result = Nil) # (resp.envelope.error = Nil)

\* A RemovePeer that passed validation has been answered while the provider
\* could not open the device.
C13_Witness ==
    /\ Answered(req, resp)
    /\ CallsMethod(req, "RemovePeer")
    /\ PassesValidation(req)
    /\ ~RemovePeerRequest(ParamsObj(req)).ValidateOnly
    /\ ~devUp
    /\ resp.envelope # Nil
    /\ calls # <<>>

(***************************************************************************)
(* C14.                                                                    *)
(***************************************************************************)
\* The positions of the allowed_ips of request r that hold no CIDR range.
BadEntries(r) == {i \in 1..Len(r.AllowedIPs) : ~ParseCIDR(r.AllowedIPs[i]).ok}

\* h is an AddPeer call with at least one allowed_ips entry that is no CIDR
\* range and nothing else wrong with it.
HasBadRange(h) ==
    /\ CallsMethod(h, "AddPeer")
    /\ BadEntries(AddPeerRequest(ParamsObj(h))) # {}
    /\ validateAddPeerRequest([AddPeerRequest(ParamsObj(h)) EXCEPT !.AllowedIPs = <<>>]) = Nil

\* What Server.AddPeer returns for the params of h against provider state
\* (tbl, up).
AddPeerReturn(h, tbl, up) == AddPeer(AddPeerRequest(ParamsObj(h)), tbl, up)

\* C14: an AddPeer whose allowed_ips has an entry that is no CIDR range
\* fails as a whole, whatever the other entries are: Server.AddPeer returns
\* no response and an InvalidParams error naming such an entry, the envelope
\* carries that error's text and no result, and nothing is submitted to the
\* provider, whose peer table stays as it was.
C14_BadRangeFailsAll ==
    [][(Answered(req', resp') /\ HasBadRange(req'))
        => /\ AddPeerReturn(req', peers, devUp).res = Nil
           /\ \E i \in BadEntries(AddPeerRequest(ParamsObj(req'))) :
                 AddPeerReturn(req', peers, devUp).err =
                    InvalidParams(RangeNotValid(AddPeerRequest(ParamsObj(req')).AllowedIPs[i]))
           /\ resp'.envelope # Nil
           /\ resp'.envelope.result = Nil
           /\ resp'.envelope.error # Nil
           /\ resp'.envelope.error.Message = ErrorString(AddPeerReturn(req', peers, devUp).err)
           /\ calls' = <<>>
           /\ peers' = peers]_vars

\* An AddPeer with a range followed by a text that is no range was answered
\* by a device that is there and holds the peer named.
C14_Witness ==
    /\ Answered(req, resp)
    /\ HasBadRange(req)
    /\ ~AddPeerRequest(ParamsObj(req)).ValidateOnly
    /\ AddPeerRequest(ParamsObj(req)).AllowedIPs = <<N2, BadCIDR2>>
    /\ devUp
    /\ HasPeer(peers, ParseKey(AddPeerRequest(ParamsObj(req)).PublicKey).key)

(***************************************************************************)
(* C15.                                                                    *)
(***************************************************************************)
\* Text s has 44 characters and base64-decodes to 32 bytes.
WellFormedKey(s) == s.len = 44 /\ DecodedLen(s) = 32

KeyMethods == {"GetPeer", "AddPeer", "RemovePeer"}

\* The keys of request h are well formed: its public key, and for AddPeer
\* its preshared key when it gives one.
KeysWellFormed(h) ==
    /\ WellFormedKey(GetPeerRequest(ParamsObj(h)).PublicKey)
    /\ RPC(h).Method = "AddPeer"
         => \/ AddPeerRequest(ParamsObj(h)).PresharedKey = EmptyStr
            \/ WellFormedKey(AddPeerRequest(ParamsObj(h)).PresharedKey)

\* The verdict of the method's validator on the keys of h alone: for
\* AddPeer, on the request without its other settings.
KeysVerdict(h) ==
    IF RPC(h).Method = "AddPeer"
    THEN validateAddPeerRequest([AddPeerRequest(ParamsObj(h)) EXCEPT
                                    !.Endpoint = NoEndpointStr,
                                    !.PersistentKeepAlive = NoDurationStr,
                                    !.AllowedIPs = <<>>])
    ELSE IF RPC(h).Method = "GetPeer" THEN validateGetPeerRequest(GetPeerRequest(ParamsObj(h)))
    ELSE validateRemovePeerRequest(RemovePeerRequest(ParamsObj(h)))

\* C15: the validators of GetPeer, AddPeer and RemovePeer accept the keys of
\* a request exactly when each is a text of 44 characters that decodes to 32
\* bytes; otherwise the validator returns an InvalidParams error, the
\* request is answered with that error's text, never with an internal
\* error (-32603), and the provider is not called.
C15_KeyValidation ==
    (Answered(req, resp) /\ Dispatched(req) /\ RPC(req).Method \in KeyMethods /\ ParamsDecode(req))
        => /\ KeysWellFormed(req) <=> KeysVerdict(req) = Nil
           /\ ~KeysWellFormed(req)
                => /\ KeysVerdict(req).type = "*Error"
                   /\ KeysVerdict(req).Code = -32602
                   /\ resp.envelope # Nil
                   /\ resp.envelope.error # Nil
                   /\ resp.envelope.error.Code # -32603
                   /\ resp.envelope.error.Message = ErrorString(KeysVerdict(req))
                   /\ calls = <<>>

\* An AddPeer whose preshared key has 44 base64 characters without padding,
\* which decode to 33 bytes, has been answered.
C15_Witness ==
    /\ Answered(req, resp)
    /\ CallsMethod(req, "AddPeer")
    /\ WellFormedKey(AddPeerRequest(ParamsObj(req)).PublicKey)
    /\ AddPeerRequest(ParamsObj(req)).PresharedKey.len = 44
    /\ AddPeerRequest(ParamsObj(req)).PresharedKey.alpha
    /\ DecodedLen(AddPeerRequest(ParamsObj(req)).PresharedKey) = 33
    /\ devUp

(***************************************************************************)
(* C16.                                                                    *)
(***************************************************************************)
\* h is a ListPeers call with no negative limit or offset, answered with r.
AnsweredListPeers(h, r) ==
    /\ Answered(h, r)
    /\ CallsMethod(h, "ListPeers")
    /\ PassesValidation(h)

Presentations(t) ==
    {scheme \o lead \o t \o trail :
        scheme \in {<<>>, TokenScheme},
        lead \in {<<>>, <<" ">>, <<" ", " ">>},
        trail \in {<<>>, <<" ">>}}

\* The Authorization header of h provides one of the tokens.
ProvidesToken(h, tokens) ==
    \E i \in 1..Len(tokens) : h.authorization \in Presentations(tokens[i])

PeersResult(r) ==
    /\ r.envelope # Nil
    /\ r.envelope.error = Nil
    /\ r.envelope.result.type \in {"*GetPeerResponse", "*ListPeersResponse"}

\* The peers in their wire form that such a result holds.
WirePeers(r) ==
    IF r.envelope.result.type = "*ListPeersResponse"
    THEN r.envelope.result.Peers
    ELSE r.envelope.result.Peer

\* Preshared keys a peer may have instead of its own (0: none).
OtherPresharedKeys == {5, 6, 8}

\* C18: every peer in a GetPeer or ListPeers result is the wire form of a
\* peer of the device; its has_preshared_key is true exactly when that
\* peer's preshared key is not the zero key, it has no field for the key,
\* and it would be the same whatever the value of a non-zero key.
C18_NoPresharedKey ==
    (Answered(req, resp) /\ PeersResult(resp))
        => \A i \in 1..Len(WirePeers(resp)) :
              \E j \in 1..Len(peers) :
                 /\ WirePeers(resp)[i].PublicKey = GoodKeyStr(peers[j].PublicKey)
                 /\ WirePeers(resp)[i].HasPresharedKey = (peers[j].PresharedKey # 0)
                 /\ "PresharedKey" \notin DOMAIN WirePeers(resp)[i]
                 /\ peers[j].PresharedKey # 0
                      => \A k \in OtherPresharedKeys :
                            WirePeers(resp)[i] = peer2rpc([peers[j] EXCEPT !.PresharedKey = k])

\* A ListPeers result holds a peer with a preshared key and one without.
C18_Witness ==
    /\ Answered(req, resp)
    /\ CallsMethod(req, "ListPeers")
    /\ PeersResult(resp)
    /\ \E i, j \in 1..Len(WirePeers(resp)) :
          /\ WirePeers(resp)[i].HasPresharedKey
          /\ ~WirePeers(resp)[j].HasPresharedKey
    /\ \E j \in 1..Len(peers) : peers[j].PresharedKey = 5

(***************************************************************************)
(* C19.                                                                    *)
(***************************************************************************)
\* One check: whether the request fails it and the message it then gives.
Check(fails, msg) == [fails |-> fails, msg |-> msg]

\* The checks on a public key, in the order claimed, each taken by itself.
PublicKeyChecks(pk) ==
    <<Check(pk = EmptyStr, <<"public key is required">>),
      Check(pk.len # 44, <<"malformed public key">>),
      Check(DecodedLen(pk) # 32, <<"invalid public key: ">> \o ParseKey(pk).msg)>>

\* The further checks of AddPeer, in the order claimed, each taken by itself.
SettingsChecks(r) ==
    <<Check(r.PresharedKey # EmptyStr /\ r.PresharedKey.len # 44, <<"malformed preshared key">>),
      Check(r.PresharedKey # EmptyStr /\ DecodedLen(r.PresharedKey) # 32,
            <<"invalid preshared key: ">> \o ParseKey(r.PresharedKey).msg),
      Check(r.Endpoint # NoEndpointStr /\ ~ResolveUDPAddr(r.Endpoint).ok,
            <<"invalid endpoint: ">> \o ResolveUDPAddr(r.Endpoint).msg),
      Check(r.PersistentKeepAlive # NoDurationStr /\ ~ParseDuration(r.PersistentKeepAlive).ok,
            <<"invalid keepalive: ">> \o ParseDuration(r.PersistentKeepAlive).msg)>>
    \o [i \in 1..Len(r.AllowedIPs) |->
            Check(~ParseCIDR(r.AllowedIPs[i]).ok, RangeNotValid(r.AllowedIPs[i]))]

\* All checks on the params of h, in the order claimed.
ClaimedChecks(h) ==
    PublicKeyChecks(GetPeerRequest(ParamsObj(h)).PublicKey)
    \o (IF RPC(h).Method = "AddPeer" THEN SettingsChecks(AddPeerRequest(ParamsObj(h))) ELSE <<>>)

\* The positions of the checks that h fails.
Faults(h) == {i \in 1..Len(ClaimedChecks(h)) : ClaimedChecks(h)[i].fails}

\* The error of the earliest check that h fails, Nil when it fails none.
EarliestFault(h) ==
    IF Faults(h) = {} THEN Nil
    ELSE InvalidParams(ClaimedChecks(h)[CHOOSE i \in Faults(h) : \A j \in Faults(h) : i <= j].msg)

\* C19: for GetPeer, AddPeer and RemovePeer the validator's verdict is the
\* error of the earliest check the request fails, in the order: public key
\* present, 44 characters long, decodes; then in AddPeer preshared key
\* length, preshared key decodes, endpoint, keep-alive, each allowed_ips
\* entry in list order; the response carries that error's text.
C19_FirstFault ==
    (Answered(req, resp) /\ Dispatched(req) /\ RPC(req).Method \in KeyMethods /\ ParamsDecode(req))
        => /\ ValidationError(req) = EarliestFault(req)
           /\ Faults(req) # {}
                => /\ resp.envelope # Nil
                   /\ resp.envelope.error # Nil
                   /\ resp.envelope.error.Message = ErrorString(EarliestFault(req))

\* An AddPeer with a preshared key that does not decode, an endpoint
\* without port, a keep-alive without unit and a text that is no range has
\* been answered.
C19_Witness ==
    /\ Answered(req, resp)
    /\ CallsMethod(req, "AddPeer")
    /\ Cardinality(Faults(req)) >= 4
    /\ WellFormedKey(AddPeerRequest(ParamsObj(req)).PublicKey)
    /\ AddPeerRequest(ParamsObj(req)).PresharedKey.len = 44

(***************************************************************************)
(* C20.                                                                    *)
(***************************************************************************)
\* h is a GetDeviceInfo, or a ListPeers or GetPeer that passes validation.
Query(h) ==
    /\ Dispatched(h)
    /\ \/ RPC(h).Method = "GetDeviceInfo"
       \/ RPC(h).Method \in {"ListPeers", "GetPeer"} /\ PassesValidation(h)

\* Response r to query h shows the device with peer table tbl.
Shows(h, r, tbl) ==
    /\ r.envelope # Nil
    /\ r.envelope.error = Nil
    /\ RPC(h).Method = "GetDeviceInfo" => r.envelope.result.Device.NumPeers = Len(tbl)
    /\ RPC(h).Method = "ListPeers"
         => r.envelope.result.Peers = [i \in 1..Len(tbl) |-> peer2rpc(tbl[i])]
    /\ RPC(h).Method = "GetPeer"
         => \/ /\ r.envelope.result.Peer = <<>>
               /\ \A i \in 1..Len(tbl) : tbl[i].PublicKey # GetPeerKey(h)
            \/ \E i \in 1..Len(tbl) :
                  /\ tbl[i].PublicKey = GetPeerKey(h)
                  /\ r.envelope.result.Peer = <<peer2rpc(tbl[i])>>

\* C20: whatever AddPeer and RemovePeer calls and whatever changes of the
\* provider came before, each GetDeviceInfo, ListPeers and GetPeer makes
\* its own Device query, and when the provider answers it the result shows
\* the provider's peer table as it is at that time; so a GetDeviceInfo
\* followed by a ListPeers reports as num_peers the number of peers the
\* ListPeers returns.
C20_NoCache ==
    [][(Answered(req', resp') /\ Query(req'))
        => /\ calls' = <<DeviceCall(deviceName)>>
           /\ peers' = peers
           /\ devUp => Shows(req', resp', peers)
           /\ ~devUp => IsErrorWithCode(resp', -32000)
           /\ (devUp /\ Answered(req, resp) /\ Dispatched(req)
                 /\ RPC(req).Method = "GetDeviceInfo" /\ RPC(req').Method = "ListPeers")
                => resp.envelope.result.Device.NumPeers = Len(resp'.envelope.result.Peers)]_vars

\* A GetDeviceInfo was answered by a device that holds two peers, the one
\* with the second key first.
C20_Witness ==
    /\ Answered(req, resp)
    /\ Dispatched(req)
    /\ RPC(req).Method = "GetDeviceInfo"
    /\ devUp
    /\ Len(peers) = 2
    /\ peers[1].PublicKey = 2
    /\ Len(peers[2].AllowedIPs) = 2

(***************************************************************************)
(* C21.                                                                    *)
(***************************************************************************)
\* h is an AddPeer or RemovePeer that passes validation and does not ask
\* for validation only.
Change(h) ==
    /\ Dispatched(h)
    /\ RPC(h).Method \in {"AddPeer", "RemovePeer"}
    /\ PassesValidation(h)
    /\ ~ValidateOnlyCall(h)

\* C21: no request makes more than one provider call: a GetDeviceInfo,
\* ListPeers or GetPeer makes one Device query, an AddPeer or RemovePeer
\* that is carried out one ConfigureDevice; and when that call fails the
\* request is answered with an error and no result, no second call made.
C21_NoRetry ==
    (Answered(req, resp) /\ Dispatched(req))
        => /\ Len(calls) <= 1
           /\ Query(req) => (Len(calls) = 1 /\ calls[1].op = "Device")
           /\ Change(req) => (Len(calls) = 1 /\ calls[1].op = "ConfigureDevice")
           /\ (calls # <<>> /\ ~devUp)
                => /\ Len(calls) = 1
                   /\ resp.envelope # Nil
                   /\ resp.envelope.error # Nil
                   /\ resp.envelope.result = Nil

\* An AddPeer with a preshared key was carried out while the provider
\* could not open the device.
C21_Witness ==
    /\ Answered(req, resp)
    /\ Change(req)
    /\ RPC(req).Method = "AddPeer"
    /\ AddPeerRequest(ParamsObj(req)).PresharedKey = PSK
    /\ ~devUp
    /\ Len(calls) = 1

(***************************************************************************)
(* C23.                                                                    *)
(***************************************************************************)
\* The params of h are left out or do not fit the parameter structure.
ParamsUndecodable(h) == RPC(h).Params.kind \in {"absent", "badtype"}

\* Request h without its params.
WithoutParams(h) == [h EXCEPT !.body.obj.params = <<>>]

\* C23: a ListPeers, GetPeer, AddPeer or RemovePeer whose params are left
\* out or do not decode into the method's parameters is answered with an
\* error of code -32700 carrying the decoder's message, no provider call is
\* made and the peer table stays as it was; a GetDeviceInfo is answered as
\* it is without params, whatever its params are.
C23_UndecodableParams ==
    [][(Answered(req', resp') /\ Dispatched(req') /\ req'.body.kind = "object")
        => /\ (RPC(req').Method \in ValidatedMethods /\ ParamsUndecodable(req'))
                => /\ IsErrorWithCode(resp', -32700)
                   /\ resp'.envelope.result = Nil
                   /\ resp'.envelope.error.Message \in
                         {<<"unexpected end of JSON input">>, <<"json: cannot unmarshal">>}
                   /\ calls' = <<>>
                   /\ peers' = peers
           /\ RPC(req').Method = "GetDeviceInfo"
                => /\ resp' = Exchange(WithoutParams(req'), peers, devUp).resp
                   /\ calls' = <<DeviceCall(deviceName)>>]_vars

\* A GetPeer whose params do not fit its parameters was answered by a
\* device that is there and holds peers.
C23_Witness ==
    /\ Answered(req, resp)
    /\ Dispatched(req)
    /\ RPC(req).Method = "GetPeer"
    /\ RPC(req).Params = BadTypeParams
    /\ devUp
    /\ peers # <<>>

(***************************************************************************)
(* C24.                                                                    *)
(***************************************************************************)
\* C24: whenever main collected at least one token, a request without
\* Authorization header, or with an empty one, is answered 403 "forbidden"
\* and no provider call is made for it.
C24_NoHeaderForbidden ==
    (Answered(req, resp) /\ Len(authTokens) > 0 /\ req.authorization = <<>>)
        => (resp = Forbidden /\ calls = <<>>)

(***************************************************************************)
(* C25.                                                                    *)
(***************************************************************************)
\* The networks that a change names for its peer: those of an AddPeer.
ChangeNets(h) == IF RPC(h).Method = "AddPeer" THEN NetsOf(h) ELSE {}

\* The provider calls cs are one ConfigureDevice of the configured device
\* with one peer change, for the key of h, removing exactly when h is a
\* RemovePeer, and not replacing the peer list.
OnePeerChange(h, cs) ==
    /\ Len(cs) = 1
    /\ cs[1].op = "ConfigureDevice"
    /\ cs[1].name = deviceName
    /\ ~cs[1].cfg.ReplacePeers
    /\ Len(cs[1].cfg.Peers) = 1
    /\ cs[1].cfg.Peers[1].PublicKey = KeyOf(h)
    /\ cs[1].cfg.Peers[1].Remove = (RPC(h).Method = "RemovePeer")

\* C25 as claimed: every AddPeer or RemovePeer that is carried out submits
\* one configuration of the configured device with one peer change, for
\* the request's key, and every peer with another key is afterwards as it
\* was before.
C25_OthersUnchanged ==
    [][(Answered(req', resp') /\ Change(req'))
        => /\ OnePeerChange(req', calls')
           /\ \A i \in 1..Len(peers) :
                 peers[i].PublicKey # KeyOf(req') => \E j \in 1..Len(peers') : peers'[j] = peers[i]]_vars

\* C25 as amended: every AddPeer or RemovePeer that is carried out submits
\* one configuration of the configured device with one peer change, for
\* the request's key; every peer with another key stays in the table with
\* its settings, and with its allowed IPs but for the ranges that an
\* AddPeer names, which the device gives to the peer added.
C25_OnePeerChange ==
    [][(Answered(req', resp') /\ Change(req'))
        => /\ OnePeerChange(req', calls')
           /\ \A i \in 1..Len(peers) :
                 peers[i].PublicKey # KeyOf(req')
                    => \E j \in 1..Len(peers') :
                          \/ peers'[j] = peers[i]
                          \/ /\ resp'.envelope.error = Nil
                             /\ peers'[j] =
                                  [peers[i] EXCEPT !.AllowedIPs =
                                      SelectSeq(@, LAMBDA a : a \notin ChangeNets(req'))]]_vars

\* An AddPeer for the second key has been carried out on a device whose
\* first peer has the first key and a preshared key, and no allowed IPs
\* any more.
C25_Witness ==
    /\ AddedPeer(req, resp)
    /\ Change(req)
    /\ KeyOf(req) = 2
    /\ NetsOf(req) # {}
    /\ Len(peers) = 2
    /\ peers[1].PublicKey = 1
    /\ peers[1].PresharedKey = 5
    /\ peers[1].AllowedIPs = <<>>

(***************************************************************************)
(* C22.                                                                    *)
(***************************************************************************)
\* C22: however the requests served at the same time interleave, the
\* response of each is the one that its own request gets from the provider
\* as its own handler met it: it carries the id of its own request, and
\* every provider call made for it names the configured device.
C22_NoSharedState ==
    \A i \in 1..MaxFlights :
       flights[i].stage = "sent"
          => /\ flights[i].out =
                   Exchange(flights[i].h, flights[i].seen.peers, flights[i].seen.up).resp
             /\ (flights[i].out.status = 200
                   => JSONValue(flights[i].out.envelope.id) = JSONValue(IDOf(flights[i].h)))
             /\ \A c \in Range(flights[i].calls) : c.name = deviceName

\* A GetPeer that arrived before an AddPeer for the same key was
\* dispatched has been answered with the peer that the AddPeer made, while
\* the AddPeer, with another id, is not answered yet.
C22_Witness ==
    /\ flights[1].stage = "served"
    /\ RPC(flights[1].h).Method = "AddPeer"
    /\ flights[1].seen.peers = <<>>
    /\ flights[2].stage = "sent"
    /\ RPC(flights[2].h).Method = "GetPeer"
    /\ flights[2].seen.peers # <<>>
    /\ flights[2].out.envelope.id # IDOf(flights[1].h)
    /\ flights[2].out.envelope.result # Nil

====
